---- MODULE Spec2Model ----
(***************************************************************************)
(* Model of scrape_sugar_futures.py: a scheduled job that, when it is 10   *)
(* o'clock in Berlin, fetches the sugar-futures quotes from Barchart's     *)
(* internal API and appends one CSV row per contract to sugar-futures.csv. *)
(*                                                                         *)
(* The state is the ledger file, the wall clock, and the position of the   *)
(* current invocation of main() together with its local variables.  The    *)
(* HTTP responses and I/O errors are inputs chosen by the environment.     *)
(***************************************************************************)
EXTENDS Integers, Sequences, FiniteSets, TLC

VARIABLES
    clock,        \* the wall clock, a UTC instant [day, hour, minute]
    ledgerExists, \* os.path.exists(OUTFILE)
    ledger,       \* the CSV records of OUTFILE, in file order
    pc,           \* position of the current invocation of main()
    runs,         \* number of invocations of main() started so far
    now,          \* main: now (the Berlin datetime read at line 150)
    gateOut,      \* result of should_run_at_10_berlin for this invocation
    date_str,     \* main: date_str
    xsrf,         \* fetch_rows: xsrf_decoded
    pageResp,     \* the response to the page GET of this invocation
    apiResp,      \* the response to the API GET of this invocation
    requests,     \* the HTTP requests issued by this invocation, in order
    rows,         \* main: rows (the batch returned by fetch_rows)
    written,      \* append_rows: written
    exitCode,     \* exit status of the last finished invocation (-1: none)
    failure,      \* which error ended the last invocation ("none": no error)
    ledger0,      \* history: ledger when this invocation started
    exists0,      \* history: ledgerExists when this invocation started
    fired         \* the scheduler's triggers so far, each with the gate's answer

vars == <<clock, ledgerExists, ledger, pc, runs, now, gateOut, date_str, xsrf,
          pageResp, apiResp, requests, rows, written, exitCode, failure,
          ledger0, exists0, fired>>

(***************************************************************************)
(* Bounds of the model.                                                    *)
(***************************************************************************)
MaxRuns == 2        \* invocations of main() explored
MaxResults == 7     \* longest "results" list the API returns
MaxDay == 5         \* last calendar day of the clock-gate specification
RunDays == 1        \* last calendar day on which main() is invoked
SchedDays == 1      \* last calendar day of the scheduler specification

(***************************************************************************)
(* Program constants.                                                      *)
(***************************************************************************)
TargetHour == 10    \* should_run_at_10_berlin: now_berlin.hour == 10
BatchSize == 6      \* fetch_rows: results[:6]

FIELDS == <<"symbol", "lastPrice", "priceChange", "openPrice", "highPrice",
            "lowPrice", "previousPrice", "volume", "openInterest", "tradeTime">>

Header == <<"Date", "Contract", "Latest", "Change", "Open", "High", "Low",
            "Previous", "Volume", "Open Int", "Time">>

(***************************************************************************)
(* Time.  Days are numbered from 0; the window holds one spring-forward    *)
(* and one fall-back of Europe/Berlin, both at 01:00 UTC as in the tz      *)
(* database (the summer between them is shortened to fit the window).      *)
(***************************************************************************)
SpringForward == [day |-> 1, hour |-> 1]
FallBack == [day |-> 4, hour |-> 1]

Dates == <<"2026-03-28", "2026-03-29", "2026-03-30", "2026-03-31",
           "2026-04-01", "2026-04-02", "2026-04-03", "2026-04-04",
           "2026-04-05">>

NotBefore(i, t) == i.day > t.day \/ (i.day = t.day /\ i.hour >= t.hour)

\* ZoneInfo("Europe/Berlin").utcoffset, in hours: +2 in summer time, else +1.
BerlinOffset(i) == IF NotBefore(i, SpringForward) /\ ~NotBefore(i, FallBack)
                   THEN 2 ELSE 1

Instants == [day : 0..MaxDay, hour : 0..23, minute : 0..59]

NoTime == [date |-> -1, hour |-> -1, minute |-> -1]

\* Variant with the fixed offset of CET instead of the zone's rules.
berlin_now_FixedOffset(i) ==
    [date |-> i.day + ((i.hour + 1) \div 24), hour |-> (i.hour + 1) % 24,
     minute |-> i.minute]

\* datetime.now(tz=ZoneInfo("Europe/Berlin")): the instant as Berlin local time.
\* (zoneinfo is always there: the module's list[dict] annotations need the
\* same Python 3.9 that ships it, so the RuntimeError of line 36 cannot occur.)
berlin_now(i) ==
    LET h == i.hour + BerlinOffset(i)
    IN  [date |-> i.day + (h \div 24), hour |-> h % 24, minute |-> i.minute]

\* Variant that also wants the minute to be zero.
should_run_exact_minute(now_berlin) ==
    now_berlin.hour = TargetHour /\ now_berlin.minute = 0

should_run_at_10_berlin(now_berlin) == now_berlin.hour = TargetHour

\* date.isoformat()
IsoDate(d) == Dates[d + 1]

Earlier(a, b) ==
    \/ a.day < b.day
    \/ (a.day = b.day /\ a.hour < b.hour)
    \/ (a.day = b.day /\ a.hour = b.hour /\ a.minute < b.minute)

\* The instants at which the pipeline is exercised: the two scheduled hours
\* (08 and 09 UTC) and a late hour whose Berlin date is already the next day.
RunInstants == [day : 0..RunDays, hour : {8, 9, 23}, minute : {0}]

(***************************************************************************)
(* JSON values and the records of the API response.                        *)
(***************************************************************************)
JAbsent == [t |-> "absent", s |-> "", n |-> 0]
JNull == [t |-> "null", s |-> "", n |-> 0]
JStr(x) == [t |-> "str", s |-> x, n |-> 0]
JNum(k) == [t |-> "num", s |-> "", n |-> k]

Keys == {"symbol", "contractSymbol", "lastPrice", "priceChange", "openPrice",
         "highPrice", "lowPrice", "previousPrice", "volume", "openInterest",
         "tradeTime"}

\* dict.get(key): None when the key is missing
Get(obj, key) == IF obj.f[key].t = "absent" THEN JNull ELSE obj.f[key]

\* Python truthiness of a JSON scalar: None, "" and 0 are false
Truthy(v) == (v.t = "str" /\ v.s # "") \/ (v.t = "num" /\ v.n # 0)

\* a or b
PyOr(a, b) == IF Truthy(a) THEN a ELSE b

\* str(v) of a string or a number
PyStr(v) == IF v.t = "str" THEN v.s ELSE ToString(v.n)

\* Variant that tests falsiness instead of None: "if not v".
norm_Falsy(v) == IF ~Truthy(v) THEN "" ELSE PyStr(v)

\* append_rows.norm
norm(v) == IF v.t = "null" THEN "" ELSE PyStr(v)

\* csv.writer's rendering of one field: None is written as the empty field
CsvField(v) == IF v.t = "null" THEN "" ELSE PyStr(v)

Codes == <<"SBH26", "SBK26", "SBN26", "SBV26", "SBH27", "SBK27", "SBN27",
           "SBV27", "SBH28">>

\* A well-formed record of the API: the i-th nearest contract.
Quote(i) ==
    [dict |-> TRUE,
     f |-> [k \in Keys |->
              CASE k = "symbol" -> JStr(Codes[i])
                [] k = "contractSymbol" -> JAbsent
                [] k = "lastPrice" -> JNum(14 + i)
                [] k = "priceChange" -> JStr("-0.05")
                [] k = "openPrice" -> JNum(15)
                [] k = "highPrice" -> JNum(16)
                [] k = "lowPrice" -> JNum(13)
                [] k = "previousPrice" -> JNull
                [] k = "volume" -> JNum(0)
                [] k = "openInterest" -> JAbsent
                [] OTHER -> JStr("10:00 CT")]]

\* The same record with one key changed.
With(obj, key, v) == [obj EXCEPT !.f[key] = v]

\* An element of "results" that is not a JSON object (a string, a number, null).
NonDict == [dict |-> FALSE, f |-> [k \in Keys |-> JAbsent]]

\* Records whose contract code is not under "symbol": only under
\* "contractSymbol", under neither, and under "contractSymbol" with an empty
\* "symbol".
Specials ==
    << With(With(Quote(1), "symbol", JAbsent), "contractSymbol", JStr("SBH26x")),
       With(Quote(1), "symbol", JAbsent),
       With(With(Quote(1), "symbol", JStr("")), "contractSymbol", JStr("SBH26x")) >>

\* The JSON values that occur as elements of "results".  The state holds an
\* element as its index in this table: 1..MaxResults are the quotes, then
\* come the special records, and last the element that is no object.
Objects == [i \in 1..MaxResults |-> Quote(i)] \o Specials \o <<NonDict>>
BadItem == Len(Objects)
SpecialIds == (MaxResults + 1)..(MaxResults + Len(Specials))
Item(id) == Objects[id]

(***************************************************************************)
(* The responses the environment may give.                                *)
(***************************************************************************)
Asc(n) == [i \in 1..n |-> i]
Desc(n) == [i \in 1..n |-> n + 1 - i]
BadAt(n, k) == [Asc(n) EXCEPT ![k] = BadItem]

ResultLists ==
    {Asc(n) : n \in {0, 1, BatchSize - 1, BatchSize, MaxResults}}
      \cup {Desc(MaxResults)}
      \cup {BadAt(MaxResults, k) : k \in {1, 3, MaxResults}}
      \cup {<<v, 2>> : v \in SpecialIds}

NoResults == [t |-> "absent", list |-> <<>>]
NoBody == [json |-> FALSE, results |-> NoResults]

\* The body of the API response: not JSON at all, or a JSON object whose
\* "results" key is missing, null, or a list.
Bodies ==
    {NoBody}
      \cup {[json |-> TRUE, results |-> [t |-> k, list |-> <<>>]] :
               k \in {"absent", "null"}}
      \cup {[json |-> TRUE, results |-> [t |-> "list", list |-> l]] :
               l \in ResultLists}

\* HTTP status; 0 stands for a transport error or a timeout.
Statuses == {0, 200, 403}

NoCookie == [set |-> FALSE, value |-> ""]
Cookies == {NoCookie} \cup [set : {TRUE}, value : {"", "tok=", "tok%3D", "tok%253D"}]

NoPage == [status |-> -1, cookie |-> NoCookie]
NoApi == [status |-> -1, body |-> NoBody]

PageResponses == {[status |-> 200, cookie |-> c] : c \in Cookies}
                   \cup {[status |-> st, cookie |-> NoCookie] : st \in Statuses \ {200}}

ApiResponses == {[status |-> 200, body |-> b] : b \in Bodies}
                  \cup {[status |-> st, body |-> NoBody] : st \in Statuses \ {200}}

(***************************************************************************)
(* fetch_rows                                                              *)
(***************************************************************************)
\* requests raises on a transport error; raise_for_status raises on 4xx/5xx
Raises(status) == status = 0 \/ status >= 400

\* Variant that leaves the cookie value as received.
unquote_Identity(s) == s

\* urllib.parse.unquote on the cookie values above
unquote(s) == CASE s = "tok%253D" -> "tok%3D"
                [] s = "tok%3D" -> "tok="
                [] OTHER -> s

\* if not xsrf
NoToken(cookie) == ~cookie.set \/ cookie.value = ""

\* data.get("results") or []
ResultsOf(body) == IF body.results.t = "list" THEN body.results.list ELSE <<>>

\* Variant that never raises on an empty result.
NoResultsError_Never(results) == FALSE

\* if not results: raise
NoResultsError(results) == Len(results) = 0

\* seq[:k]
Take(seq, k) == SubSeq(seq, 1, IF Len(seq) < k THEN Len(seq) ELSE k)

\* Variant: the whole list, results[:]
Slice_All(results) == results

\* Variant: the last six, results[-6:]
Slice_Last(results) ==
    SubSeq(results,
           IF Len(results) > BatchSize THEN Len(results) - BatchSize + 1 ELSE 1,
           Len(results))

\* results[:6]
Slice(results) == Take(results, BatchSize)

(***************************************************************************)
(* ensure_header and append_rows                                           *)
(***************************************************************************)
\* Variant that appends the header on every call.
ensure_header_EveryCall(exists, content) == Append(content, Header)

\* Variant that rewrites the file on every call.
ensure_header_Truncate(exists, content) == <<Header>>

\* The file's records after ensure_header(path, header).
ensure_header(exists, content) ==
    IF ~exists \/ Len(content) = 0 THEN <<Header>> ELSE content

RowKeys == <<"lastPrice", "priceChange", "openPrice", "highPrice", "lowPrice",
             "previousPrice", "volume", "openInterest", "tradeTime">>

\* Variant without the fallback: item.get("symbol") or ""
Contract_NoFallback(item) == PyOr(Get(item, "symbol"), JStr(""))

\* item.get("symbol") or item.get("contractSymbol") or ""
Contract(item) ==
    PyOr(PyOr(Get(item, "symbol"), Get(item, "contractSymbol")), JStr(""))

\* Variant that leaves the date field empty.
Line_NoDate(d, item) ==
    <<"", CsvField(Contract(item))>>
      \o [i \in 1..Len(RowKeys) |-> norm(Get(item, RowKeys[i]))]

\* Variant that reads the clock again for the date of each row.
Line_ClockDate(d, item) ==
    <<IsoDate(berlin_now(clock).date), CsvField(Contract(item))>>
      \o [i \in 1..Len(RowKeys) |-> norm(Get(item, RowKeys[i]))]

\* The CSV record written for one item.
Line(d, item) ==
    <<d, CsvField(Contract(item))>>
      \o [i \in 1..Len(RowKeys) |-> norm(Get(item, RowKeys[i]))]

(***************************************************************************)
(* The invocations of main().                                              *)
(***************************************************************************)
Stopped == pc \in {"idle", "skipped", "failed", "done"}

\* No invocation has started.
Fresh ==
    /\ ledger = <<>>
    /\ pc = "idle"
    /\ runs = 0
    /\ now = NoTime
    /\ gateOut = "unset"
    /\ date_str = ""
    /\ xsrf = ""
    /\ pageResp = NoPage
    /\ apiResp = NoApi
    /\ requests = <<>>
    /\ rows = <<>>
    /\ written = 0
    /\ exitCode = -1
    /\ failure = "none"
    /\ ledger0 = <<>>
    /\ exists0 = ledgerExists
    /\ fired = <<>>

\* The ledger is absent, or present and empty.
Init ==
    /\ clock \in RunInstants
    /\ ledgerExists \in BOOLEAN
    /\ Fresh

\* Variant that swallows the exception and exits normally.
Raise_ExitZero(kind) ==
    /\ pc' = "failed"
    /\ exitCode' = 0
    /\ failure' = kind

\* Variant that retries the fetch after an exception.
Raise_Retry(kind) ==
    /\ pc' = "fetch"
    /\ exitCode' = exitCode
    /\ failure' = kind

\* An uncaught exception: the interpreter prints the traceback and exits 1.
Raise(kind) ==
    /\ pc' = "failed"
    /\ exitCode' = 1
    /\ failure' = kind

\* Time passes.
Tick ==
    /\ \E i \in RunInstants : Earlier(clock, i) /\ clock' = i
    /\ UNCHANGED <<ledgerExists, ledger, pc, runs, now, gateOut, date_str, xsrf,
                   pageResp, apiResp, requests, rows, written, exitCode,
                   failure, ledger0, exists0, fired>>

\* Variant without the early return.
AfterGate_NoReturn(open) == "fetch"

\* Where main() goes after the clock gate.
AfterGate(open) == IF open THEN "fetch" ELSE "skipped"

\* main, lines 150-157: read the clock, apply the gate, compute date_str.
Invoke ==
    /\ Stopped
    /\ runs' = runs + 1
    /\ now' = berlin_now(clock)
    /\ gateOut' = IF should_run_at_10_berlin(now') THEN "run" ELSE "skip"
    /\ pc' = AfterGate(should_run_at_10_berlin(now'))
    /\ exitCode' = IF pc' = "skipped" THEN 0 ELSE -1
    /\ date_str' = IF pc' = "skipped" THEN "" ELSE IsoDate(now'.date)
    /\ failure' = "none"
    /\ xsrf' = ""
    /\ pageResp' = NoPage
    /\ apiResp' = NoApi
    /\ requests' = <<>>
    /\ rows' = <<>>
    /\ written' = 0
    /\ ledger0' = ledger
    /\ exists0' = ledgerExists
    /\ UNCHANGED <<clock, ledgerExists, ledger>>

\* An invocation of main() at any time.
Start ==
    /\ runs < MaxRuns
    /\ Invoke
    /\ UNCHANGED fired

\* fetch_rows, lines 47-63: the page GET and the XSRF cookie.
PageGet ==
    /\ pc = "fetch"
    /\ \E r \in PageResponses :
         /\ pageResp' = r
         /\ requests' = Append(requests, [url |-> "page", token |-> ""])
         /\ IF Raises(r.status)
            THEN Raise("network") /\ xsrf' = xsrf
            ELSE IF NoToken(r.cookie)
            THEN Raise("auth") /\ xsrf' = xsrf
            ELSE /\ xsrf' = unquote(unquote(r.cookie.value))
                 /\ pc' = "api"
                 /\ UNCHANGED <<exitCode, failure>>
    /\ UNCHANGED <<clock, ledgerExists, ledger, runs, now, gateOut, date_str,
                   apiResp, rows, written, ledger0, exists0, fired>>

\* fetch_rows, lines 65-91: the API GET, the results check and the slice.
ApiGet ==
    /\ pc = "api"
    /\ \E r \in ApiResponses :
         /\ apiResp' = r
         /\ requests' = Append(requests, [url |-> "api", token |-> xsrf])
         /\ IF Raises(r.status)
            THEN Raise("network") /\ rows' = rows
            ELSE IF ~r.body.json
            THEN Raise("json") /\ rows' = rows
            ELSE IF NoResultsError(ResultsOf(r.body))
            THEN Raise("empty") /\ rows' = rows
            ELSE /\ rows' = Slice(ResultsOf(r.body))
                 /\ pc' = "append"
                 /\ UNCHANGED <<exitCode, failure>>
    /\ UNCHANGED <<clock, ledgerExists, ledger, runs, now, gateOut, date_str,
                   xsrf, pageResp, written, ledger0, exists0, fired>>

\* append_rows, lines 102-123: ensure_header, then open the file for append.
\* io names the open() that fails with an OSError, if any.
AppendBegin ==
    /\ pc = "append"
    /\ \E io \in {"ok", "header", "append"} :
         IF io = "header" /\ ensure_header(ledgerExists, ledger) # ledger
         THEN Raise("io") /\ UNCHANGED <<ledgerExists, ledger, written>>
         ELSE /\ ledger' = ensure_header(ledgerExists, ledger)
              /\ ledgerExists' = TRUE
              /\ written' = 0
              /\ IF io = "append"
                 THEN Raise("io")
                 ELSE pc' = "write" /\ UNCHANGED <<exitCode, failure>>
    /\ UNCHANGED <<clock, runs, now, gateOut, date_str, xsrf, pageResp, apiResp,
                   requests, rows, ledger0, exists0, fired>>

\* append_rows, lines 125-144: one iteration of the loop.  item.get raises
\* AttributeError when the item is not a dict; the with block then closes
\* the file, which keeps the rows written so far.
WriteRow ==
    /\ pc = "write"
    /\ written < Len(rows)
    /\ LET item == Item(rows[written + 1])
       IN  IF ~item.dict
           THEN Raise("record") /\ UNCHANGED <<ledger, written>>
           ELSE /\ ledger' = Append(ledger, Line(date_str, item))
                /\ written' = written + 1
                /\ UNCHANGED <<pc, exitCode, failure>>
    /\ UNCHANGED <<clock, ledgerExists, runs, now, gateOut, date_str, xsrf,
                   pageResp, apiResp, requests, rows, ledger0, exists0, fired>>

\* append_rows line 146 and main lines 160-161: return written; return 0.
Finish ==
    /\ pc = "write"
    /\ written = Len(rows)
    /\ pc' = "done"
    /\ exitCode' = 0
    /\ UNCHANGED <<clock, ledgerExists, ledger, runs, now, gateOut, date_str,
                   xsrf, pageResp, apiResp, requests, rows, written, failure,
                   ledger0, exists0, fired>>

Next == Tick \/ Start \/ PageGet \/ ApiGet \/ AppendBegin \/ WriteRow \/ Finish

Spec == Init /\ [][Next]_vars

(***************************************************************************)
(* The clock gate on its own: every instant of the window, to the minute.  *)
(***************************************************************************)
InitGate ==
    /\ clock \in Instants
    /\ ledgerExists = FALSE
    /\ Fresh

\* main, lines 150-153: berlin_now() and should_run_at_10_berlin(now).
GateStep ==
    /\ gateOut = "unset"
    /\ now' = berlin_now(clock)
    /\ gateOut' = IF should_run_at_10_berlin(now') THEN "run" ELSE "skip"
    /\ UNCHANGED <<clock, ledgerExists, ledger, pc, runs, date_str, xsrf,
                   pageResp, apiResp, requests, rows, written, exitCode,
                   failure, ledger0, exists0, fired>>

NextGate == GateStep

SpecGate == InitGate /\ [][NextGate]_vars

(***************************************************************************)
(* The pipeline under its scheduler: the workflow starts main() at 08:00   *)
(* and at 09:00 UTC of every day, each start some minutes into its hour,   *)
(* and an invocation has ended before the next one starts.                 *)
(***************************************************************************)
Triggers == 2 * (SchedDays + 1)

\* The hour (UTC) and the day of the k-th trigger.
TriggerDay(k) == (k - 1) \div 2
TriggerHour(k) == 8 + ((k - 1) % 2)

\* How late into its hour a trigger may start main(), in minutes.
Delays == {0, 59}

AtTrigger(k) ==
    [day : {TriggerDay(k)}, hour : {TriggerHour(k)}, minute : Delays]

InitSched ==
    /\ clock \in AtTrigger(1)
    /\ ledgerExists \in BOOLEAN
    /\ Fresh

\* The scheduler starts main() for the trigger the clock has reached.
Trigger ==
    /\ Len(fired) < Triggers
    /\ clock \in AtTrigger(Len(fired) + 1)
    /\ Invoke
    /\ fired' = Append(fired, gateOut')

\* Time passes until the next trigger.
Wait ==
    /\ Stopped
    /\ Len(fired) < Triggers
    /\ clock \in AtTrigger(Len(fired))
    /\ clock' \in AtTrigger(Len(fired) + 1)
    /\ UNCHANGED <<ledgerExists, ledger, pc, runs, now, gateOut, date_str, xsrf,
                   pageResp, apiResp, requests, rows, written, exitCode,
                   failure, ledger0, exists0, fired>>

NextSched ==
    Trigger \/ Wait \/ PageGet \/ ApiGet \/ AppendBegin \/ WriteRow \/ Finish

SpecSched == InitSched /\ [][NextSched]_vars

(***************************************************************************)
(* Properties.                                                             *)
(***************************************************************************)
IsPrefix(a, b) == Len(a) <= Len(b) /\ SubSeq(b, 1, Len(a)) = a

\* The CSV records of l whose first field is d.
LinesOf(l, d) == {i \in DOMAIN l : l[i][1] = d}

\* The "results" list of this invocation's API response.
Results == apiResp.body.results.list

\* The records this invocation has appended after the header.
Appended == SubSeq(ledger, Len(ledger) - written + 1, Len(ledger))

\* The number of data rows this invocation has added to the ledger.
AddedRows ==
    Len(ledger) - Len(ledger0) - (IF Len(ledger0) = 0 /\ Len(ledger) > 0 THEN 1 ELSE 0)

\* The page response makes fetch_rows fail: no 2xx/3xx answer, or no token.
PageBad ==
    /\ pageResp # NoPage
    /\ \/ pageResp.status \notin 200..399
       \/ ~pageResp.cookie.set
       \/ pageResp.cookie.value = ""

\* The API response makes fetch_rows fail: no 2xx/3xx answer, or results
\* missing, null or empty.
ApiBad ==
    /\ apiResp # NoApi
    /\ \/ apiResp.status \notin 200..399
       \/ ~apiResp.body.json
       \/ apiResp.body.results.t # "list"
       \/ Len(Results) = 0

\* C1 (as claimed): idempotence across runs.  When an invocation that passed
\* the gate has ended successfully, the ledger holds the rows of exactly one
\* batch for that invocation's date: an earlier successful invocation on the
\* same date makes every later one append nothing.
C1_OneBatchPerDate ==
    pc = "done" => Cardinality(LinesOf(ledger, date_str)) = Len(rows)

\* C2 (as claimed): when the ledger already holds a row whose first field is
\* today's Berlin date, an invocation that passes the gate issues no HTTP
\* request, leaves the ledger unchanged and exits with code 0.
C2_DuplicateDateSkips ==
    (gateOut = "run" /\ LinesOf(ledger0, IsoDate(now.date)) # {})
        => /\ requests = <<>>
           /\ ledger = ledger0
           /\ pc = "skipped"
           /\ exitCode = 0

\* C3: when the Berlin hour read by an invocation is not 10, the invocation
\* ends at once with exit code 0, has issued no HTTP request, and the ledger
\* (its absence included) is as it was when the invocation started.
C3_GateClosedNoEffect ==
    (runs > 0 /\ now.hour # 10)
        => /\ pc = "skipped"
           /\ exitCode = 0
           /\ requests = <<>>
           /\ ledger = ledger0
           /\ ledgerExists = exists0

C3_Witness ==
    /\ pc = "skipped"
    /\ now.hour # 10
    /\ exitCode = 0
    /\ Len(ledger) > 1

\* C4: the gate answers "run" exactly for the instants whose Berlin hour is
\* 10, whatever the minute: 09:00-09:59 UTC while Berlin is at UTC+1 and
\* 08:00-08:59 UTC while it is at UTC+2, the transition days included.
C4_GateIffBerlinHourTen ==
    gateOut # "unset"
        => (gateOut = "run"
              <=> \/ (BerlinOffset(clock) = 1 /\ clock.hour = 9)
                  \/ (BerlinOffset(clock) = 2 /\ clock.hour = 8))

\* The gate is open at 08:59 UTC on the day of the spring-forward.
C4_Witness ==
    /\ gateOut = "run"
    /\ clock.day = SpringForward.day
    /\ clock.hour = 8
    /\ clock.minute = 59

\* C5: if a response makes fetch_rows fail, the invocation has failed with a
\* non-zero exit code and the ledger is as it was when the invocation
\* started: an absent file is not created and no header or row is written.
C5_NoWriteOnFetchFailure ==
    (PageBad \/ ApiBad)
        => /\ pc = "failed"
           /\ exitCode # 0
           /\ ledger = ledger0
           /\ ledgerExists = exists0

\* fetch_rows failed on an empty results list and the absent file stays absent.
C5_Witness ==
    /\ pc = "failed"
    /\ apiResp.status = 200
    /\ apiResp.body.results.t = "list"
    /\ Len(Results) = 0
    /\ ~ledgerExists

\* C6 (as claimed): when append_rows has ended, by returning or by raising,
\* the ledger holds either all rows of the batch or none of them.
C6_AllOrNothing ==
    (pc \in {"failed", "done"} /\ ~PageBad /\ ~ApiBad /\ apiResp # NoApi)
        => AddedRows \in {0, Len(rows)}

\* C7: from an absent or empty ledger, whenever the ledger has content its
\* first record is the header and no other record is the header.
C7_HeaderOnce ==
    Len(ledger) > 0
        => /\ ledger[1] = Header
           /\ \A i \in 2..Len(ledger) : ledger[i] # Header

\* A second successful append onto a ledger that already has its header.
C7_Witness ==
    /\ pc = "done"
    /\ Len(ledger0) > 1
    /\ written > 0

\* C8: no step deletes, rewrites or reorders a record of the ledger, or
\* removes the file: the ledger before a step is a prefix of the ledger
\* after it.
C8_AppendOnly ==
    [][IsPrefix(ledger, ledger') /\ (ledgerExists => ledgerExists')]_vars

\* An invocation that failed part-way through its append onto earlier rows.
C8_Witness ==
    /\ pc = "failed"
    /\ failure = "record"
    /\ Len(ledger0) > 1
    /\ Len(ledger) > Len(ledger0)

FetchSucceeded == pc \in {"append", "write", "done"}

\* C9 (as claimed): every successful fetch yields exactly 6 records, and
\* every successful invocation has appended exactly 6 rows.
C9_ExactlySix ==
    /\ FetchSucceeded => Len(rows) = 6
    /\ pc = "done" => AddedRows = 6

\* C9 (amended): a successful fetch yields min(6, n) records for a results
\* list of n >= 1 entries, so between 1 and 6, and a successful invocation
\* has appended exactly that many rows.
C9_AtMostSix ==
    /\ FetchSucceeded
         => /\ Len(rows) = (IF Len(Results) < 6 THEN Len(Results) ELSE 6)
            /\ Len(rows) \in 1..6
    /\ pc = "done" => AddedRows = Len(rows)

\* A successful invocation on a response of fewer than 6 records.
C9_Witness ==
    /\ pc = "done"
    /\ Len(Results) = 5
    /\ AddedRows = 5

\* C10: when results has 6 or more entries, the batch is its first 6 entries
\* in their original order, and the rows appended so far are the rows of the
\* batch's first entries, in the same order.
C10_FirstSixInOrder ==
    ((FetchSucceeded \/ (pc = "failed" /\ failure = "record")) /\ Len(Results) >= 6)
        => /\ rows = [i \in 1..6 |-> Results[i]]
           /\ Appended = [i \in 1..written |-> Line(date_str, Item(Results[i]))]

\* All 6 rows of a response of more than 6 entries, not in ascending order.
C10_Witness ==
    /\ pc = "done"
    /\ Len(Results) > 6
    /\ Results[1] > Results[2]
    /\ written = 6

\* C11: a skipped invocation and a successful one end with exit code 0;
\* an invocation ended by a fetch failure or by a ledger I/O failure ends
\* with a non-zero exit code; every ended invocation has an exit code.
C11_ExitStatus ==
    /\ pc \in {"skipped", "done"} => exitCode = 0
    /\ (pc = "failed" \/ failure # "none" \/ PageBad \/ ApiBad)
         => (Stopped /\ exitCode > 0)
    /\ (runs > 0 /\ Stopped) => exitCode >= 0

\* The ledger could not be opened: the invocation ends with exit code 1.
C11_Witness ==
    /\ pc = "failed"
    /\ failure = "io"
    /\ exitCode = 1

\* The string form of a JSON scalar; nothing for a missing key or a null.
StringForm(v) ==
    CASE v.t \in {"absent", "null"} -> ""
      [] v.t = "str" -> v.s
      [] OTHER -> ToString(v.n)

\* C12: every appended row is the date string followed by exactly 10 fields:
\* the contract, then lastPrice, priceChange, openPrice, highPrice, lowPrice,
\* previousPrice, volume, openInterest, tradeTime of the record, each empty
\* when the key is missing or null and the value's string form otherwise.
C12_RowShape ==
    \A i \in 1..written :
        LET row == Appended[i]
            rec == Item(rows[i]).f
        IN  /\ Len(row) = 11
            /\ row[1] = date_str
            /\ row[2] \in {StringForm(rec["symbol"]),
                           StringForm(rec["contractSymbol"]), ""}
            /\ row[3] = StringForm(rec["lastPrice"])
            /\ row[4] = StringForm(rec["priceChange"])
            /\ row[5] = StringForm(rec["openPrice"])
            /\ row[6] = StringForm(rec["highPrice"])
            /\ row[7] = StringForm(rec["lowPrice"])
            /\ row[8] = StringForm(rec["previousPrice"])
            /\ row[9] = StringForm(rec["volume"])
            /\ row[10] = StringForm(rec["openInterest"])
            /\ row[11] = StringForm(rec["tradeTime"])

\* A row with a null field, a missing field and a volume of 0, which is
\* written as "0".
C12_Witness ==
    /\ written > 0
    /\ Item(rows[1]).f["previousPrice"].t = "null"
    /\ Item(rows[1]).f["openInterest"].t = "absent"
    /\ Item(rows[1]).f["volume"] = JNum(0)
    /\ Appended[1][9] = "0"

\* C13 (as claimed): the contract field is the record's "symbol" whenever
\* that key is present, "contractSymbol" only if "symbol" is absent, and
\* empty only if both are absent.
C13_ContractFallback ==
    \A i \in 1..written :
        LET rec == Item(rows[i]).f
            contract == Appended[i][2]
        IN  /\ rec["symbol"].t # "absent" => contract = StringForm(rec["symbol"])
            /\ (rec["symbol"].t = "absent" /\ rec["contractSymbol"].t # "absent")
                 => contract = StringForm(rec["contractSymbol"])
            /\ contract = ""
                 => (rec["symbol"].t = "absent" /\ rec["contractSymbol"].t = "absent")

\* A missing key, a null, an empty string or a zero.
Blank(v) == v.t \in {"absent", "null"} \/ (v.t = "str" /\ v.s = "")
                \/ (v.t = "num" /\ v.n = 0)

\* C13 (amended): the contract field is "symbol" whenever that value is not
\* blank (missing, null, empty or zero); it is "contractSymbol" when
\* "symbol" is blank and "contractSymbol" is not; it is empty exactly when
\* both are blank.
C13_ContractFallbackOnBlank ==
    \A i \in 1..written :
        LET rec == Item(rows[i]).f
            contract == Appended[i][2]
        IN  /\ ~Blank(rec["symbol"]) => contract = StringForm(rec["symbol"])
            /\ (Blank(rec["symbol"]) /\ ~Blank(rec["contractSymbol"]))
                 => contract = StringForm(rec["contractSymbol"])
            /\ contract = "" <=> (Blank(rec["symbol"]) /\ Blank(rec["contractSymbol"]))

\* A row whose contract comes from "contractSymbol" because "symbol" is
\* present but empty.
C13_Witness ==
    /\ written > 0
    /\ Item(rows[1]).f["symbol"] = JStr("")
    /\ Appended[1][2] = "SBH26x"

ApiSent == \E i \in DOMAIN requests : requests[i].url = "api"

\* The cookie values of the model with every level of percent-encoding removed.
PlainToken(c) == IF c \in {"tok=", "tok%3D", "tok%253D"} THEN "tok=" ELSE c

C15_EmptyResultFails ==
    /\ (apiResp.status \in 200..299 /\ apiResp.body.json
          /\ (apiResp.body.results.t \in {"absent", "null"} \/ Len(Results) = 0))
         => (pc = "failed" /\ failure = "empty" /\ rows = <<>>)
    /\ FetchSucceeded => Len(rows) >= 1
    /\ pc = "done" => AddedRows >= 1

\* fetch_rows failed on a null "results".
C15_Witness ==
    /\ pc = "failed"
    /\ failure = "empty"
    /\ apiResp.body.results.t = "null"

\* C16: when append_rows has returned, the count it returns is the length of
\* the batch and the number of data rows the ledger has grown by, and every
\* one of those rows starts with the date string it was given.
C16_ReturnsCount ==
    pc = "done"
        => /\ written = Len(rows)
           /\ written = AddedRows
           /\ date_str = IsoDate(now.date)
           /\ \A i \in 1..written : Appended[i][1] = date_str

\* Two rows appended to a ledger that already had rows.
C16_Witness ==
    /\ pc = "done"
    /\ written = 2
    /\ AddedRows = 2
    /\ Len(ledger0) > 1

Urls == [i \in DOMAIN requests |-> requests[i].url]

\* The positions of main(), in program order.
Rank(p) ==
    CASE p = "fetch" -> 1
      [] p = "api" -> 2
      [] p = "append" -> 3
      [] p = "write" -> 4
      [] OTHER -> 5

\* C17: an invocation issues at most the page GET and then the API GET, once
\* each; it never goes back to an earlier position, so it enters the append
\* at most once, and after a failure it issues no request and stays ended.
C17_SingleAttempt ==
    /\ [](Urls \in {<< >>, <<"page">>, <<"page", "api">>})
    /\ [][runs' = runs
            => /\ Rank(pc') >= Rank(pc)
               /\ (pc' = "append" /\ pc # "append") => pc = "api"
               /\ pc = "failed" => (pc' = "failed" /\ requests' = requests)]_vars

\* The API GET failed: both requests were issued, once each.
C17_Witness ==
    /\ pc = "failed"
    /\ failure = "network"
    /\ Urls = <<"page", "api">>

\* The dates of the instants at which it is 10 o'clock in Berlin.
TenOClockDates ==
    {IsoDate(berlin_now(i).date) : i \in {j \in RunInstants : berlin_now(j).hour = 10}}

\* C19: every row an invocation appends carries the Berlin date of the one
\* clock reading that passed the gate at hour 10, however far the clock has
\* moved on since; every data row of the ledger carries a date on which it
\* was 10 o'clock in Berlin at an invocation.
C19_DateConsistency ==
    /\ \A i \in 1..written :
          /\ Appended[i][1] = IsoDate(now.date)
          /\ now.hour = 10
          /\ gateOut = "run"
    /\ \A i \in 2..Len(ledger) : ledger[i][1] \in TenOClockDates

\* Rows being written after the Berlin date has changed since the gate.
C19_Witness ==
    /\ pc = "write"
    /\ written > 0
    /\ berlin_now(clock).date # now.date

\* C18: with main() started at 08:00 and at 09:00 UTC of every day, within
\* the hour, exactly one of a day's two invocations passes the gate: the one
\* of 09:00 UTC while Berlin is at UTC+1, the one of 08:00 UTC while it is at
\* UTC+2.  So an invocation that passes the gate finds no row of its date in
\* the ledger, and a date's rows all come from one invocation.
C18_OncePerDay ==
    /\ \A d \in 0..SchedDays :
          Len(fired) >= 2 * d + 2
            => LET at8 == fired[2 * d + 1]
                   at9 == fired[2 * d + 2]
                   summer == BerlinOffset([day |-> d, hour |-> 8]) = 2
               IN  /\ (at8 = "run") # (at9 = "run")
                   /\ at8 = "run" <=> summer
                   /\ at9 = "run" <=> ~summer
    /\ gateOut = "run" => LinesOf(ledger0, IsoDate(now.date)) = {}
    /\ \A i \in 2..Len(ledger0) :
          \A j \in (Len(ledger0) + 1)..Len(ledger) : ledger[i][1] # ledger[j][1]

\* Both days' triggers have fired: the 09:00 one wrote on the winter day, the
\* 08:00 one on the summer day, each started 59 minutes into its hour.
C18_Witness ==
    /\ fired = <<"skip", "run", "run", "skip">>
    /\ Len(ledger) > 2
    /\ ledger[2][1] # ledger[Len(ledger)][1]
    /\ clock.minute = 59

====
